---- MODULE Spec2Model ----
(***************************************************************************)
(* Load accounting and network routing of the Lake Omapere constructed-    *)
(* wetland (CW) phosphorus analysis.                                       *)
(*                                                                         *)
(* Five programs of the repository are modelled, one family of variables   *)
(* each:                                                                   *)
(*   - NetworkRouter.route_loads_advanced   (lake_omapere_cw_analysis.py)  *)
(*   - the module-level routing script      (lake_omapere_routing.py)      *)
(*   - the Phase 2 pipeline                 (..._PHASE2_with_comparison.py)*)
(*   - the LakeOmapereAnalysis pipeline     (lake_omapere_cw_analysis.py)  *)
(*   - the complete-analysis script  (lake_omapere_complete_analysis.py)   *)
(*                                                                         *)
(* Arithmetic.  The programs compute in floating point.  The model computes*)
(* the same expressions exactly, in integers: percentages are integers,    *)
(* attenuation factors are tenths, and every load is a multiple of a unit  *)
(* chosen so that each division the code performs is exact.                *)
(***************************************************************************)
EXTENDS Integers, Sequences, FiniteSets, TLC

\* ------------------------------------------------------------------------
\* Bounds and value domains
\* ------------------------------------------------------------------------

\* Largest hydrological sequence number drawn for a reach.
MaxSeq == 3

\* Reach identifiers (NZSEGMENT / reach_id); rows appear in this order.
Reaches == {1, 2, 3}

\* A missing table entry (None / NaN).
NoValue == 0 - 1

\* One load unit of the routing models: a halved load stays exact through
\* three attenuations.
RUnit == 2 * 10 * 10 * 10

\* Attenuation factors are held in tenths: 9 is 0.90.
DEFAULT_ATTENUATION == 9

\* Attenuation entries an input table may carry for a reach.
AttenEntries == {NoValue, 0, 5}

\* x multiplied by an attenuation factor given in tenths.
Atten(x, tenths) == (x * tenths) \div 10

\* a / b * 100 on floats: NaN for 0 / 0, infinite for x / 0, else the
\* quotient, kept in whole percent.
PercentOf(a, b) ==
    IF b = 0
    THEN IF a = 0 THEN [kind |-> "nan", value |-> 0] ELSE [kind |-> "inf", value |-> 0]
    ELSE [kind |-> "finite", value |-> (a * 100) \div b]

\* Series.fillna(0) and Series.replace([np.inf, -np.inf], 0) on one cell.
fillna0(x) == IF x.kind = "nan" THEN [kind |-> "finite", value |-> 0] ELSE x

replace_inf0(x) == IF x.kind = "inf" THEN [kind |-> "finite", value |-> 0] ELSE x

\* Sum of f[x] over the elements of the sequence s (f a function).
RECURSIVE SumSeq(_, _)
SumSeq(s, f) == IF s = <<>> THEN 0 ELSE f[Head(s)] + SumSeq(Tail(s), f)

\* The rows 1..n of a table column col whose value is v, in row order.
RECURSIVE RowsWith(_, _, _)
RowsWith(n, col, v) ==
    IF n = 0 THEN <<>>
    ELSE IF col[n] = v THEN Append(RowsWith(n - 1, col, v), n)
         ELSE RowsWith(n - 1, col, v)

NumReaches == Cardinality(Reaches)

\* ------------------------------------------------------------------------
\* State
\* ------------------------------------------------------------------------

\* NetworkRouter.route_loads_advanced (lake_omapere_cw_analysis.py)
VARIABLES
    r_pc,            \* position in route_loads_advanced
    HYDSEQ,          \* the HYDSEQ column, per reach (router and script)
    to_reach,        \* reach_network_df: row of reach r names its to_reach
    attenuation_df,  \* attenuation_df: per reach an entry or NoValue
    generated,       \* loads_df['generated_<scenario>'], per reach
    upstream_map,    \* to_reach -> list of from_reach
    attenuation,     \* dict reach -> factor (NoValue: key absent)
    routed,          \* results['routed_<scenario>'], per reach
    routed_reduction \* results['routed_reduction'], per reach

\* lake_omapere_routing.py (module-level script)
VARIABLES
    s_pc,            \* position in the script
    TO_NODE,         \* hydroedge['TO_NODE'], per reach
    Patten_in,       \* AttenCarry_baseline / _wetland_066m: entry or NoValue
    CW_Removal_Pct,  \* cw_lookup: per reach a percentage or NoValue
    clues_baseline,  \* TPGen of the CLUES tables, per reach, or NoValue
    network,         \* seg -> list of upstream segs
    loads_df,        \* merged table: TPGen_* and Patten_* columns
    sorted_segs,     \* row order of loads_df after sort_values('HYDSEQ')
    TPRouted,        \* TPRouted_* columns (NoValue: not yet routed)
    RoutedReduction, \* RoutedReduction_WetlandPlusCW, per reach
    RoutedReduction_Pct  \* RoutedReduction_Pct of lake_df, per lake reach

\* lake_omapere_cw_analysis_PHASE2_with_comparison.py, one reach (each row of
\* all_data is processed independently of the others)
VARIABLES
    p_pc,            \* position in main()
    all_data,        \* the merged row of the reach
    lrf_data,        \* the LRF table: a set of rows
    results,         \* scenario name -> result row (<<>>: not yet run)
    valid,           \* scenario name -> outcome of validate_results
    warnings         \* data-quality lines the run has printed

\* LakeOmapereAnalysis (lake_omapere_cw_analysis.py), one reach
VARIABLES
    l_pc,            \* position in run_full_analysis
    self_cw_coverage,     \* self.cw_coverage: cw_coverage_percent of the reach
    self_clay_data,       \* self.clay_data: clay_percent of the reach or NoValue
    self_hype_pathways,   \* self.hype_pathways: the Hype.csv row of the reach
    self_pathway_lrfs,    \* self.pathway_lrfs: sequence of rows (<<>>: None)
    self_reach_network,   \* self.reach_network: sequence of rows (<<>>: None)
    self_attenuation,     \* self.attenuation: <<factor of the reach>> (<<>>: None)
    self_results,    \* self.results: the row of the reach
    self_log,        \* the ERROR lines the run has printed
    self_outputs     \* the result files the run has written

\* lake_omapere_complete_analysis.py, one reach (rows are treated independently)
VARIABLES
    c_pc,              \* position in the script
    complete_results   \* the row of the results table

routerVars == <<r_pc, to_reach, attenuation_df, generated,
                upstream_map, attenuation, routed, routed_reduction>>

scriptVars == <<s_pc, TO_NODE, Patten_in, CW_Removal_Pct, clues_baseline, network,
                loads_df, sorted_segs, TPRouted, RoutedReduction,
                RoutedReduction_Pct>>

phase2Vars == <<p_pc, all_data, lrf_data, results, valid, warnings>>

legacyVars == <<l_pc, self_cw_coverage, self_clay_data, self_hype_pathways, self_pathway_lrfs,
                self_reach_network, self_attenuation, self_results, self_log,
                self_outputs>>

completeVars == <<c_pc, complete_results>>

vars == <<HYDSEQ, routerVars, scriptVars, phase2Vars, legacyVars, completeVars>>

CompleteIdle ==
    /\ c_pc = "idle"
    /\ complete_results = <<>>

RouterIdle ==
    /\ r_pc = "idle"
    /\ to_reach = <<>>
    /\ attenuation_df = <<>>
    /\ generated = <<>>
    /\ upstream_map = <<>>
    /\ attenuation = <<>>
    /\ routed = <<>>
    /\ routed_reduction = <<>>

ScriptIdle ==
    /\ s_pc = "idle"
    /\ TO_NODE = <<>>
    /\ Patten_in = <<>>
    /\ CW_Removal_Pct = <<>>
    /\ clues_baseline = <<>>
    /\ network = <<>>
    /\ loads_df = <<>>
    /\ sorted_segs = <<>>
    /\ TPRouted = <<>>
    /\ RoutedReduction = <<>>
    /\ RoutedReduction_Pct = <<>>

Phase2Idle ==
    /\ p_pc = "idle"
    /\ all_data = <<>>
    /\ lrf_data = {}
    /\ results = <<>>
    /\ valid = <<>>
    /\ warnings = {}

LegacyIdle ==
    /\ l_pc = "idle"
    /\ self_cw_coverage = 0
    /\ self_clay_data = 0
    /\ self_hype_pathways = <<>>
    /\ self_pathway_lrfs = <<>>
    /\ self_reach_network = <<>>
    /\ self_attenuation = <<>>
    /\ self_results = <<>>
    /\ self_log = {}
    /\ self_outputs = {}

\* ------------------------------------------------------------------------
\* Inputs shared by the two routing programs
\* ------------------------------------------------------------------------

\* Generated loads of the three reaches in the baseline scenario.
GenBaseline == [r \in Reaches |-> IF r = 1 THEN 10 * RUnit
                                  ELSE IF r = 2 THEN 5 * RUnit
                                  ELSE 20 * RUnit]

\* Orders sort_values('HYDSEQ') may return: ascending HYDSEQ, rows of equal
\* HYDSEQ in either order (the default sort kind is not stable).
SortedOrders(seq) ==
    {o \in [1..NumReaches -> Reaches] :
        /\ \A i, j \in 1..NumReaches : i # j => o[i] # o[j]
        /\ \A i, j \in 1..NumReaches : i < j => seq[o[i]] <= seq[o[j]]}

\* ------------------------------------------------------------------------
\* NetworkRouter.route_loads_advanced
\* ------------------------------------------------------------------------

ScenarioNames == {"baseline", "wetland", "cw"}

InitRouter ==
    /\ CompleteIdle
    /\ ScriptIdle
    /\ Phase2Idle
    /\ LegacyIdle
    /\ r_pc = "start"
    /\ HYDSEQ \in [Reaches -> 1..MaxSeq]
    /\ to_reach \in {f \in [Reaches -> Reaches \cup {NoValue}] :
                        \A r \in Reaches : f[r] # r}
    /\ attenuation_df \in [Reaches -> AttenEntries]
    /\ \E m \in Reaches \cup {NoValue} :
         generated = [s \in ScenarioNames |->
                        [r \in Reaches |->
                            IF s = "cw" /\ r = m THEN GenBaseline[r] \div 2
                            ELSE GenBaseline[r]]]
    /\ upstream_map = [r \in Reaches |-> <<>>]
    /\ attenuation = [r \in Reaches |-> NoValue]
    /\ routed = [s \in ScenarioNames |-> [r \in Reaches |-> NoValue]]
    /\ routed_reduction = [r \in Reaches |-> NoValue]

\* upstream_map[to_reach].append(from_reach), rows visited in table order.
BuildUpstreamMap(tr) ==
    [r \in Reaches |-> RowsWith(NumReaches, tr, r)]

BuildUpstream ==
    /\ r_pc = "start"
    /\ upstream_map' = BuildUpstreamMap(to_reach)
    /\ r_pc' = "attenuation"
    /\ UNCHANGED <<HYDSEQ, to_reach, attenuation_df, generated, attenuation,
                   routed, routed_reduction, scriptVars, phase2Vars, legacyVars, completeVars>>

\* "if reach_id and atten: attenuation[reach_id] = atten": a row is stored
\* only when its factor is truthy, so an entry of 0 leaves the key absent.
LoadAttenuationDict(df) ==
    [r \in Reaches |-> IF df[r] # NoValue /\ df[r] # 0 THEN df[r]
                       ELSE NoValue]

LoadAttenuation ==
    /\ r_pc = "attenuation"
    /\ attenuation' = LoadAttenuationDict(attenuation_df)
    /\ r_pc' = "route"
    /\ UNCHANGED <<HYDSEQ, to_reach, attenuation_df, generated, upstream_map,
                   routed, routed_reduction, scriptVars, phase2Vars, legacyVars, completeVars>>

\* attenuation.get(reach_id, Config.DEFAULT_ATTENUATION)
AttenFactor(att, reach_id) ==
    IF att[reach_id] # NoValue THEN att[reach_id] ELSE DEFAULT_ATTENUATION

\* The factor put on the routed load of upstream_reach entering reach_id.
RouterFactor(att, reach_id, upstream_reach) == AttenFactor(att, reach_id)

\* One pass of "for reach_id in sorted_reaches" over the rest of the order.
RECURSIVE RouteThrough(_, _, _, _)
RouteThrough(order, rd, um, att) ==
    IF order = <<>> THEN rd
    ELSE LET reach_id == Head(order)
             upstream_contribution ==
                 SumSeq(um[reach_id],
                        [u \in Reaches |->
                            Atten(rd[u], RouterFactor(att, reach_id, u))])
             rd2 == IF um[reach_id] # <<>>
                    THEN [rd EXCEPT ![reach_id] = @ + upstream_contribution]
                    ELSE rd
         IN  RouteThrough(Tail(order), rd2, um, att)

\* routed_dict starts as the generated loads, then the pass updates it.
RouteScenario(gen, order, um, att) == RouteThrough(order, gen, um, att)

RouteScenarios ==
    /\ r_pc = "route"
    /\ \E order \in SortedOrders(HYDSEQ) :
         routed' = [s \in ScenarioNames |->
                      RouteScenario(generated[s], order, upstream_map, attenuation)]
    /\ r_pc' = "reductions"
    /\ UNCHANGED <<HYDSEQ, to_reach, attenuation_df, generated, upstream_map,
                   attenuation, routed_reduction, scriptVars, phase2Vars, legacyVars, completeVars>>

CalculateReductions ==
    /\ r_pc = "reductions"
    /\ routed_reduction' = [r \in Reaches |->
                              routed["baseline"][r] - routed["cw"][r]]
    /\ r_pc' = "done"
    /\ UNCHANGED <<HYDSEQ, to_reach, attenuation_df, generated, upstream_map,
                   attenuation, routed, scriptVars, phase2Vars, legacyVars, completeVars>>

NextRouter == BuildUpstream \/ LoadAttenuation \/ RouteScenarios
                \/ CalculateReductions

SpecRouter == InitRouter /\ [][NextRouter]_vars

\* ------------------------------------------------------------------------
\* lake_omapere_routing.py
\* ------------------------------------------------------------------------

\* hydroedge['FROM_NODE']: every reach leaves its own node.
FROM_NODE == [r \in Reaches |-> 10 + r]

\* The node below the outlet reach: no reach starts there.
OutletNode == 10

\* lake_nzsegments: the reaches of the lake catchment.
lake_nzsegments == {1, 2}

ScriptScenarios == {"baseline", "wetland_noCW", "wetland_withCW"}

InitScript ==
    /\ CompleteIdle
    /\ RouterIdle
    /\ Phase2Idle
    /\ LegacyIdle
    /\ s_pc = "start"
    /\ HYDSEQ \in [Reaches -> 1..MaxSeq]
    /\ TO_NODE \in {f \in [Reaches -> {OutletNode} \cup {FROM_NODE[r] : r \in Reaches}] :
                        \A r \in Reaches : f[r] # FROM_NODE[r]}
    /\ \E pb \in [Reaches -> {NoValue, 5, 10}], same \in BOOLEAN :
         Patten_in = [baseline |-> pb,
                      wetland  |-> IF same THEN pb ELSE [r \in Reaches |-> 10]]
    /\ \E m \in {1, 3, NoValue} :
         CW_Removal_Pct = [r \in Reaches |-> IF r = m THEN 50 ELSE NoValue]
    /\ \E absent \in {2, NoValue} :
         clues_baseline = [r \in Reaches |->
                             IF r = absent THEN NoValue ELSE GenBaseline[r]]
    /\ network = [r \in Reaches |-> <<>>]
    /\ loads_df = <<>>
    /\ sorted_segs = <<>>
    /\ TPRouted = [s \in ScriptScenarios |-> [r \in Reaches |-> NoValue]]
    /\ RoutedReduction = [r \in Reaches |-> NoValue]
    /\ RoutedReduction_Pct = <<>>

\* network[seg] = hydroedge[hydroedge['TO_NODE'] == from_node]['NZSEGMENT']
BuildNetworkDict(tn) ==
    [seg \in Reaches |-> RowsWith(NumReaches, tn, FROM_NODE[seg])]

BuildNetwork ==
    /\ s_pc = "start"
    /\ network' = BuildNetworkDict(TO_NODE)
    /\ s_pc' = "loads"
    /\ UNCHANGED <<HYDSEQ, TO_NODE, Patten_in, CW_Removal_Pct, clues_baseline, loads_df,
                   sorted_segs, TPRouted, RoutedReduction,
                   RoutedReduction_Pct, routerVars, phase2Vars, legacyVars, completeVars>>

\* x.fillna(0)
FillZero(x) == IF x = NoValue THEN 0 ELSE x

\* TPGen_wetland_withCW: the removal applies to lake reaches only.
WithCW(seg, noCW, pct) ==
    IF seg \in lake_nzsegments THEN (noCW * (100 - pct)) \div 100 ELSE noCW

\* The merged loads_df after loads_df.fillna(0, inplace=True).
PrepareLoadsTable(pin, cw, tpgen) ==
    [seg \in Reaches |->
        [TPGen_baseline       |-> FillZero(tpgen[seg]),
         TPGen_wetland_noCW   |-> FillZero(tpgen[seg]),
         CW_Removal_Pct       |-> FillZero(cw[seg]),
         TPGen_wetland_withCW |-> WithCW(seg, FillZero(tpgen[seg]), FillZero(cw[seg])),
         Patten_baseline      |-> FillZero(pin.baseline[seg]),
         Patten_wetland       |-> FillZero(pin.wetland[seg])]]

PrepareLoads ==
    /\ s_pc = "loads"
    /\ loads_df' = PrepareLoadsTable(Patten_in, CW_Removal_Pct, clues_baseline)
    /\ s_pc' = "sort"
    /\ UNCHANGED <<HYDSEQ, TO_NODE, Patten_in, CW_Removal_Pct, clues_baseline, network,
                   sorted_segs, TPRouted, RoutedReduction,
                   RoutedReduction_Pct, routerVars, phase2Vars, legacyVars, completeVars>>

SortLoads ==
    /\ s_pc = "sort"
    /\ sorted_segs' \in SortedOrders(HYDSEQ)
    /\ s_pc' = "route_baseline"
    /\ UNCHANGED <<HYDSEQ, TO_NODE, Patten_in, CW_Removal_Pct, clues_baseline, network,
                   loads_df, TPRouted, RoutedReduction,
                   RoutedReduction_Pct, routerVars, phase2Vars, legacyVars, completeVars>>

\* The factor put on the routed load of upstream_seg entering seg:
\* patten_dict.get(upstream_seg, 1.0); every reach has a key after the merge.
ScriptFactor(patten, seg, upstream_seg) == patten[upstream_seg]

\* One routing loop of the script: rd is routed_dict (NoValue: no key yet).
RECURSIVE ScriptRouteThrough(_, _, _, _, _)
ScriptRouteThrough(order, rd, net, tpgen, patten) ==
    IF order = <<>> THEN rd
    ELSE LET seg == Head(order)
             local_load == tpgen[seg]
             upstream_load ==
                 SumSeq(net[seg],
                        [u \in Reaches |->
                            IF rd[u] # NoValue
                            THEN Atten(rd[u], ScriptFactor(patten, seg, u))
                            ELSE 0])
             total_routed == local_load + upstream_load
         IN  ScriptRouteThrough(Tail(order),
                                [rd EXCEPT ![seg] = total_routed],
                                net, tpgen, patten)

ScriptRoute(order, net, tpgen, patten) ==
    ScriptRouteThrough(order, [r \in Reaches |-> NoValue], net, tpgen, patten)

RouteBaseline ==
    /\ s_pc = "route_baseline"
    /\ TPRouted' = [TPRouted EXCEPT !["baseline"] =
           ScriptRoute(sorted_segs, network,
                       [r \in Reaches |-> loads_df[r].TPGen_baseline],
                       [r \in Reaches |-> loads_df[r].Patten_baseline])]
    /\ s_pc' = "route_wetland"
    /\ UNCHANGED <<HYDSEQ, TO_NODE, Patten_in, CW_Removal_Pct, clues_baseline, network,
                   loads_df, sorted_segs, RoutedReduction,
                   RoutedReduction_Pct, routerVars, phase2Vars, legacyVars, completeVars>>

RouteWetland ==
    /\ s_pc = "route_wetland"
    /\ TPRouted' = [TPRouted EXCEPT
           !["wetland_noCW"] =
               ScriptRoute(sorted_segs, network,
                           [r \in Reaches |-> loads_df[r].TPGen_wetland_noCW],
                           [r \in Reaches |-> loads_df[r].Patten_wetland]),
           !["wetland_withCW"] =
               ScriptRoute(sorted_segs, network,
                           [r \in Reaches |-> loads_df[r].TPGen_wetland_withCW],
                           [r \in Reaches |-> loads_df[r].Patten_wetland])]
    /\ s_pc' = "reductions"
    /\ UNCHANGED <<HYDSEQ, TO_NODE, Patten_in, CW_Removal_Pct, clues_baseline, network,
                   loads_df, sorted_segs, RoutedReduction,
                   RoutedReduction_Pct, routerVars, phase2Vars, legacyVars, completeVars>>

ScriptReductions ==
    /\ s_pc = "reductions"
    /\ RoutedReduction' = [r \in Reaches |->
           TPRouted["baseline"][r] - TPRouted["wetland_withCW"][r]]
    /\ RoutedReduction_Pct' = [r \in lake_nzsegments |->
           replace_inf0(PercentOf(TPRouted["baseline"][r] - TPRouted["wetland_withCW"][r],
                                  TPRouted["baseline"][r]))]
    /\ s_pc' = "done"
    /\ UNCHANGED <<HYDSEQ, TO_NODE, Patten_in, CW_Removal_Pct, clues_baseline, network,
                   loads_df, sorted_segs, TPRouted, routerVars, phase2Vars, legacyVars, completeVars>>

NextScript == BuildNetwork \/ PrepareLoads \/ SortLoads \/ RouteBaseline
                \/ RouteWetland \/ ScriptReductions

SpecScript == InitScript /\ [][NextScript]_vars

\* ------------------------------------------------------------------------
\* Phase 2 pipeline (lake_omapere_cw_analysis_PHASE2_with_comparison.py)
\* ------------------------------------------------------------------------

\* Largest Total_CLUES_TP drawn for the reach, in whole load units.
MaxLoad == 2

\* One load unit of the Phase 2 model: exact through the ag filter (tenths),
\* the fraction split (quarters), the bank split (halves), the pathway split
\* (tenths), the LRF (hundredths) and PstreamCarry (tenths).
PUnit == 10 * 4 * 2 * 10 * 100 * 10

\* x multiplied by a percentage.
Pct(x, percent) == (x * percent) \div 100

BANK_EROSION_PERCENT == 50
AG_THRESHOLD == 25

PathwaySeq == <<"SR", "TD", "IF", "SG", "DG">>
PathwaySet == {"SR", "TD", "IF", "SG", "DG"}
PFractionSeq == <<"PartP", "DRP", "DOP">>
PFractionSet == {"PartP", "DRP", "DOP"}
ExtCodes == {1, 2, 3}

\* load_p_fraction_splits()
p_splits == [PartP |-> 50, DRP |-> 25, DOP |-> 25]

\* CW coverage is held in tenths of a percent: 20 is 2.0 %.
CoverageValues == {0, 19, 20, 40, 41}

\* Hype.csv rows (percent per pathway) merged onto the reach; the last one is
\* the row of a reach that Hype.csv does not list (NaN in every column).
HypeRow(sr, td, interflow, sg, dg) ==
    [pw \in PathwaySet |->
        CASE pw = "SR" -> sr [] pw = "TD" -> td [] pw = "IF" -> interflow
          [] pw = "SG" -> sg [] pw = "DG" -> dg]

HypeRows ==
    { HypeRow(40, 0, 20, 20, 20),
      HypeRow(50, 10, 20, 10, 10),
      HypeRow(40, 10, 20, 10, 10),
      HypeRow(60, 20, 20, 20, 20),
      HypeRow(NoValue, NoValue, NoValue, NoValue, NoValue) }

\* Percent remaining of the dissolved fractions by extent code.
Remaining(extcode) == IF extcode = 1 THEN 23 ELSE IF extcode = 2 THEN 42 ELSE 48

LrfRow(extcode, pathway) ==
    [ExtCode |-> extcode, Pathway |-> pathway,
     PartP |-> 0, DRP |-> Remaining(extcode), DOP |-> Remaining(extcode)]

\* LRF tables the CW sheet may hold: every (ExtCode, Pathway) row; no rows for
\* deep groundwater; no rows for extent code 3; pass-through rows only.
LrfTables ==
    { {LrfRow(e, pw) : e \in ExtCodes, pw \in PathwaySet},
      {LrfRow(e, pw) : e \in ExtCodes, pw \in PathwaySet \ {"DG"}},
      {LrfRow(e, pw) : e \in ExtCodes \ {3}, pw \in PathwaySet},
      {[ExtCode |-> e, Pathway |-> pw, PartP |-> 100, DRP |-> 100, DOP |-> 100] :
          e \in ExtCodes, pw \in PathwaySet} }

\* load_hype_pathways warns when a row of Hype.csv does not sum to 100 %; a
\* reach that the file does not list has no row to warn about.
HypeSumWarning(hype) ==
    IF \A pw \in PathwaySet : hype[pw] # NoValue
    THEN IF SumSeq(PathwaySeq, hype) # 100
         THEN {"WARNING: Some pathways don't sum to 1.0"} ELSE {}
    ELSE {}

InitPhase2 ==
    /\ CompleteIdle
    /\ RouterIdle
    /\ ScriptIdle
    /\ LegacyIdle
    /\ HYDSEQ = <<>>
    /\ p_pc = "merged"
    /\ \E t \in 0..MaxLoad, ag \in {10, 25, 60},
          cov1 \in CoverageValues, cov2 \in CoverageValues,
          clay \in {NoValue, 50, 60}, hype \in HypeRows,
          carry \in {NoValue, 0, 5, 10} :
         /\ cov2 <= cov1
         /\ all_data = [Total_CLUES_TP   |-> t * PUnit,
                        ag_percent       |-> ag,
                        Combined_Percent |-> cov1,
                        Type2_SW_Percent |-> cov2,
                        hype             |-> hype,
                        Clay             |-> clay,
                        PstreamCarry     |-> carry]
    /\ lrf_data \in LrfTables
    /\ results = [s \in {"Scenario1_SurfaceGW", "Scenario2_SurfaceOnly"} |-> <<>>]
    /\ valid = <<>>
    /\ warnings = HypeSumWarning(all_data.hype)

\* all_data['Clay'].fillna(0); all_data['PstreamCarry'].fillna(1.0)
FillMissing ==
    /\ p_pc = "merged"
    /\ all_data' = [all_data EXCEPT
                      !.Clay = IF @ = NoValue THEN 0 ELSE @,
                      !.PstreamCarry = IF @ = NoValue THEN 10 ELSE @]
    /\ p_pc' = "scenario1"
    /\ UNCHANGED <<HYDSEQ, lrf_data, results, valid, warnings, routerVars, scriptVars, legacyVars, completeVars>>

\* assign_coverage_category with 4.0 % counted as large.
assign_coverage_category_ExclusiveUpper(coverage_percent) ==
    IF coverage_percent < 20 THEN 1
    ELSE IF coverage_percent < 40 THEN 2
    ELSE 3

\* Returns the ExtCode; coverage in tenths of a percent.
assign_coverage_category(coverage_percent) ==
    IF coverage_percent < 20 THEN 1
    ELSE IF coverage_percent <= 40 THEN 2
    ELSE 3

coverage_category_name(extcode) ==
    IF extcode = 1 THEN "SMALL" ELSE IF extcode = 2 THEN "MEDIUM" ELSE "LARGE"

\* Variant: a reach at exactly the threshold is filtered too.
apply_ag_filter_Inclusive(total_clues_tp, ag_percent) ==
    IF ag_percent <= AG_THRESHOLD
    THEN [available |-> Pct(total_clues_tp, ag_percent), filter_applied |-> TRUE]
    ELSE [available |-> total_clues_tp, filter_applied |-> FALSE]

apply_ag_filter(total_clues_tp, ag_percent) ==
    IF ag_percent < AG_THRESHOLD
    THEN [available |-> Pct(total_clues_tp, ag_percent), filter_applied |-> TRUE]
    ELSE [available |-> total_clues_tp, filter_applied |-> FALSE]

\* Variant: DOP is taken with the percentage of PartP.
split_p_fractions_WrongKey(available_load, splits) ==
    [f \in PFractionSet |->
        Pct(available_load, IF f = "DOP" THEN splits["PartP"] ELSE splits[f])]

split_p_fractions(available_load, splits) ==
    [f \in PFractionSet |-> Pct(available_load, splits[f])]

split_bank_erosion(p_fraction_load) ==
    [bank      |-> Pct(p_fraction_load, BANK_EROSION_PERCENT),
     hillslope |-> Pct(p_fraction_load, 100 - BANK_EROSION_PERCENT)]

\* hillslope_load * hype_pathways[pathway]; the product with NaN is NaN.
HypeShare(hillslope_load, percent) ==
    IF percent = NoValue THEN NoValue ELSE Pct(hillslope_load, percent)

\* Variant: particulate P is spread by the HYPE percentages like DRP and DOP.
distribute_by_pathways_PHASE2_ByHype(hillslope_load, p_fraction_name, hype_pathways) ==
    [pw \in PathwaySet |-> HypeShare(hillslope_load, hype_pathways[pw])]

distribute_by_pathways_PHASE2(hillslope_load, p_fraction_name, hype_pathways) ==
    IF p_fraction_name = "PartP"
    THEN [pw \in PathwaySet |-> IF pw = "SR" THEN hillslope_load ELSE 0]
    ELSE [pw \in PathwaySet |-> HypeShare(hillslope_load, hype_pathways[pw])]

\* Variant: the clay test is left out and the table is always consulted.
apply_lrf_NoClayOverride(pathway_load, p_fraction_name, pathway_name, extcode, lrf, clay_percent) ==
    LET lrf_row == {row \in lrf : row.ExtCode = extcode /\ row.Pathway = pathway_name}
    IN  IF lrf_row = {}
        THEN [removed |-> 0, remaining |-> pathway_load]
        ELSE LET lrf_percent == (CHOOSE row \in lrf_row : TRUE)[p_fraction_name]
             IN  [removed   |-> Pct(pathway_load, 100 - lrf_percent),
                  remaining |-> Pct(pathway_load, lrf_percent)]

apply_lrf(pathway_load, p_fraction_name, pathway_name, extcode, lrf, clay_percent) ==
    LET lrf_row == {row \in lrf : row.ExtCode = extcode /\ row.Pathway = pathway_name}
    IN  IF clay_percent > 50
        THEN [removed |-> 0, remaining |-> pathway_load]
        ELSE IF lrf_row = {}
        THEN [removed |-> 0, remaining |-> pathway_load]
        ELSE LET lrf_percent == (CHOOSE row \in lrf_row : TRUE)[p_fraction_name]
             IN  [removed   |-> Pct(pathway_load, 100 - lrf_percent),
                  remaining |-> Pct(pathway_load, lrf_percent)]

\* The body of "for pathway in [...]" for one pathway of one P fraction.
PathwayResult(pathway_load, p_name, pathway, extcode, lrf, clay_percent) ==
    IF pathway_load > 0
    THEN LET r == apply_lrf(pathway_load, p_name, pathway, extcode, lrf, clay_percent)
         IN  [input |-> pathway_load, removed |-> r.removed, remaining |-> r.remaining]
    ELSE [input |-> 0, removed |-> 0, remaining |-> 0]

\* Variant: the LRF is applied to the whole fraction, bank erosion included.
PFractionResult_BankMitigated(p_load, p_name, row, extcode, lrf, clay_percent) ==
    LET be == split_bank_erosion(p_load)
        hype_pathways == [pw \in PathwaySet |-> row.hype[pw]]
        pathway_loads == distribute_by_pathways_PHASE2(p_load, p_name, hype_pathways)
        pathway_results ==
            [pw \in PathwaySet |->
                PathwayResult(pathway_loads[pw], p_name, pw, extcode, lrf, clay_percent)]
        p_with_cw ==
            SumSeq(PathwaySeq, [pw \in PathwaySet |-> pathway_results[pw].remaining])
    IN  [baseline     |-> p_load,
         bank_erosion |-> be.bank,
         hillslope    |-> be.hillslope,
         with_cw      |-> p_with_cw,
         removed      |-> p_load - p_with_cw,
         pathways     |-> pathway_results]

\* The body of "for p_name in [...]": the results of one P fraction.
PFractionResult(p_load, p_name, row, extcode, lrf, clay_percent) ==
    LET be == split_bank_erosion(p_load)
        hype_pathways == [pw \in PathwaySet |-> row.hype[pw]]
        pathway_loads == distribute_by_pathways_PHASE2(be.hillslope, p_name, hype_pathways)
        pathway_results ==
            [pw \in PathwaySet |->
                PathwayResult(pathway_loads[pw], p_name, pw, extcode, lrf, clay_percent)]
        p_remaining_pathways ==
            SumSeq(PathwaySeq, [pw \in PathwaySet |-> pathway_results[pw].remaining])
        p_with_cw == be.bank + p_remaining_pathways
    IN  [baseline     |-> p_load,
         bank_erosion |-> be.bank,
         hillslope    |-> be.hillslope,
         with_cw      |-> p_with_cw,
         removed      |-> p_load - p_with_cw,
         pathways     |-> pathway_results]

\* "routed = generated * pstream_carry", PstreamCarry in tenths.
Phase2Routed(total, pstream_carry) == Atten(total, pstream_carry)

\* One iteration of run_analysis_for_scenario: the result row of the reach.
ScenarioRow(scenario_name, coverage_column, row, splits, lrf) ==
    LET ag == apply_ag_filter(row.Total_CLUES_TP, row.ag_percent)
        p_fractions == split_p_fractions(ag.available, splits)
        cw_coverage == row[coverage_column]
        extcode == assign_coverage_category(cw_coverage)
        clay_percent == row.Clay
        pf == [f \in PFractionSet |->
                 PFractionResult(p_fractions[f], f, row, extcode, lrf, clay_percent)]
        total_baseline == SumSeq(PFractionSeq, [f \in PFractionSet |-> pf[f].baseline])
        total_with_cw == SumSeq(PFractionSeq, [f \in PFractionSet |-> pf[f].with_cw])
        total_removed == SumSeq(PFractionSeq, [f \in PFractionSet |-> pf[f].removed])
        routed_baseline == Phase2Routed(total_baseline, row.PstreamCarry)
        routed_with_cw == Phase2Routed(total_with_cw, row.PstreamCarry)
    IN  [Scenario            |-> scenario_name,
         ag_filter_applied   |-> ag.filter_applied,
         Available_Load      |-> ag.available,
         CW_Coverage_Percent |-> cw_coverage,
         coverage_category   |-> coverage_category_name(extcode),
         ExtCode             |-> extcode,
         clay_percent        |-> clay_percent,
         generated_baseline  |-> total_baseline,
         generated_with_cw   |-> total_with_cw,
         cw_reduction        |-> total_removed,
         PstreamCarry        |-> row.PstreamCarry,
         routed_baseline     |-> routed_baseline,
         routed_with_cw      |-> routed_with_cw,
         routed_reduction    |-> routed_baseline - routed_with_cw,
         cw_reduction_percent |->
             IF total_baseline > 0 THEN PercentOf(total_removed, total_baseline)
             ELSE [kind |-> "finite", value |-> 0],
         routed_reduction_percent |->
             IF routed_baseline > 0
             THEN PercentOf(routed_baseline - routed_with_cw, routed_baseline)
             ELSE [kind |-> "finite", value |-> 0],
         fractions           |-> pf]

\* Variant: the first scenario writes its coverage into the shared table.
RunScenario1_InPlace ==
    /\ p_pc = "scenario1"
    /\ results' = [results EXCEPT !["Scenario1_SurfaceGW"] =
           ScenarioRow("Scenario1_SurfaceGW", "Combined_Percent",
                       all_data, p_splits, lrf_data)]
    /\ all_data' = [all_data EXCEPT !.Type2_SW_Percent = all_data.Combined_Percent]
    /\ p_pc' = "scenario2"
    /\ UNCHANGED <<HYDSEQ, lrf_data, valid, warnings, routerVars, scriptVars, legacyVars, completeVars>>

RunScenario1 ==
    /\ p_pc = "scenario1"
    /\ results' = [results EXCEPT !["Scenario1_SurfaceGW"] =
           ScenarioRow("Scenario1_SurfaceGW", "Combined_Percent",
                       all_data, p_splits, lrf_data)]
    /\ p_pc' = "scenario2"
    /\ UNCHANGED <<HYDSEQ, all_data, lrf_data, valid, warnings, routerVars, scriptVars, legacyVars, completeVars>>

RunScenario2 ==
    /\ p_pc = "scenario2"
    /\ results' = [results EXCEPT !["Scenario2_SurfaceOnly"] =
           ScenarioRow("Scenario2_SurfaceOnly", "Type2_SW_Percent",
                       all_data, p_splits, lrf_data)]
    /\ p_pc' = "validate"
    /\ UNCHANGED <<HYDSEQ, all_data, lrf_data, valid, warnings, routerVars, scriptVars, legacyVars, completeVars>>

\* validate_results: no negative load or reduction, no with_cw > baseline.
validate_results(res) ==
    /\ res.Available_Load >= 0
    /\ res.generated_baseline >= 0
    /\ res.generated_with_cw >= 0
    /\ res.routed_baseline >= 0
    /\ res.routed_with_cw >= 0
    /\ res.cw_reduction >= 0
    /\ res.routed_reduction >= 0
    /\ \A f \in PFractionSet : res.fractions[f].removed >= 0
    /\ ~(res.generated_with_cw > res.generated_baseline)

\* The lines validate_results and main print about the two result tables.
ValidationLines ==
    {"VALIDATION FAILED - Please review warnings above",
     "WARNING: Validation issues found. Please review before using results."}

\* What the run prints about the result tables it was given.
ValidationWarnings(res) ==
    UNION {IF validate_results(res[s]) THEN {} ELSE ValidationLines : s \in DOMAIN res}

ValidateResults ==
    /\ p_pc = "validate"
    /\ valid' = [s \in DOMAIN results |-> validate_results(results[s])]
    /\ warnings' = warnings \cup ValidationWarnings(results)
    /\ p_pc' = "done"
    /\ UNCHANGED <<HYDSEQ, all_data, lrf_data, results, routerVars, scriptVars, legacyVars, completeVars>>

NextPhase2 == FillMissing \/ RunScenario1 \/ RunScenario2 \/ ValidateResults

SpecPhase2 == InitPhase2 /\ [][NextPhase2]_vars

\* ------------------------------------------------------------------------
\* LakeOmapereAnalysis pipeline (lake_omapere_cw_analysis.py)
\* ------------------------------------------------------------------------

\* One load unit of this pipeline: exact through the LRF factor (fiftieths),
\* the fraction split (quarters), the bank split (halves), the pathway split
\* (fortieths) and the pathway LRF (hundredths).
LUnit == 32 * 10 * 10 * 10

\* Config.LRF_FACTORS, in percent removed.
LRF_FACTORS == [low |-> 26, medium |-> 42, high |-> 48, none |-> 0]

\* Config.P_FRACTIONS, in percent.
P_FRACTIONS == [PartP |-> 50, DRP |-> 25, DOP |-> 25]

CLAY_THRESHOLD == 50

\* Config.COVERAGE_THRESHOLDS, in tenths of a percent.
COVERAGE_THRESHOLDS == [low |-> 20, medium |-> 40]

LegacyPathwaySeq == <<"SR", "SD", "TD", "IF", "SG", "DG">>
LegacyPathwaySet == {"SR", "SD", "TD", "IF", "SG", "DG"}
mitigated_pathways == {"SR", "SD", "TD", "IF", "SG"}
LegacyScenarios == {"baseline", "wetland", "cw"}

\* x multiplied by a percentage held in tenths of a percent.
PerMille(x, permille) == (x * permille) \div 1000

\* The (ExtCode, Pathway) keys of the CW sheet in sheet order.
LrfKeys == << <<1, "SR">>, <<1, "TD">>, <<1, "IF">>, <<1, "SG">>, <<1, "DG">>,
              <<2, "SR">>, <<2, "TD">>, <<2, "IF">>, <<2, "SG">>, <<2, "DG">>,
              <<3, "SR">>, <<3, "TD">>, <<3, "IF">>, <<3, "SG">>, <<3, "DG">> >>

\* A CW-sheet row as load_pathway_lrfs returns it.
LegacyLrfRow(extcode, pathway, passDG) ==
    IF passDG /\ pathway = "DG"
    THEN [ExtCode |-> extcode, Pathway |-> pathway,
          PartPmed |-> 100, DRPmed |-> 100, DOPmed |-> 100]
    ELSE [ExtCode |-> extcode, Pathway |-> pathway,
          PartPmed |-> 0, DRPmed |-> Remaining(extcode),
          DOPmed |-> Remaining(extcode)]

LegacyLrfSheet(passDG) ==
    [i \in 1..Len(LrfKeys) |-> LegacyLrfRow(LrfKeys[i][1], LrfKeys[i][2], passDG)]

NotExt3(row) == row.ExtCode # 3

\* self.pathway_lrfs after load_all_data: None (<<>>), the full sheet, the
\* sheet whose DG rows are pass-through, the sheet without extent code 3.
LegacyLrfTables ==
    { <<>>, LegacyLrfSheet(FALSE), LegacyLrfSheet(TRUE),
      SelectSeq(LegacyLrfSheet(FALSE), NotExt3) }

\* Hype.csv rows in percent; NoValue marks a null cell.
LegacyHypeRows == HypeRows

\* load_all_data: the loaders return None for a file that is not there, the
\* filter step then fails on len(None), and the except clause prints the error
\* and lets the run continue with the data as loaded so far.
LoadErrors(reach_network, attenuation_table) ==
    IF reach_network = <<>> \/ attenuation_table = <<>>
    THEN {"ERROR Error loading data"} ELSE {}

InitLegacy ==
    /\ CompleteIdle
    /\ RouterIdle
    /\ ScriptIdle
    /\ Phase2Idle
    /\ HYDSEQ = <<>>
    /\ l_pc = "generated"
    /\ self_cw_coverage \in CoverageValues
    /\ self_clay_data \in {NoValue, 0, 100}
    /\ self_hype_pathways \in LegacyHypeRows
    /\ self_pathway_lrfs \in LegacyLrfTables
    /\ self_reach_network \in {<<>>, <<[NZSEGMENT |-> 1, HYDSEQ |-> 1]>>}
    /\ self_attenuation \in {<<>>, <<NoValue>>, <<5>>}
    /\ self_log = LoadErrors(self_reach_network, self_attenuation)
    /\ self_outputs = {}
    /\ \E t \in 0..MaxLoad :
         self_results = [generated_baseline |-> t * LUnit,
                         generated_wetland  |-> t * LUnit]

categorize_coverage(coverage_percent) ==
    IF coverage_percent >= COVERAGE_THRESHOLDS.medium THEN "high"
    ELSE IF coverage_percent >= COVERAGE_THRESHOLDS.low THEN "medium"
    ELSE IF coverage_percent > 0 THEN "low"
    ELSE "none"

\* CWMitigationCalculator.apply_cw_mitigation on the row.
apply_cw_mitigation(res, coverage, clay) ==
    LET clay_percent == IF clay = NoValue THEN 0 ELSE clay
        coverage_category == categorize_coverage(coverage)
        clayey_mask == clay_percent > CLAY_THRESHOLD
        lrf_factor == IF clayey_mask THEN 0 ELSE LRF_FACTORS[coverage_category]
        cw_reduction == Pct(res.generated_wetland, lrf_factor)
    IN  [generated_baseline  |-> res.generated_baseline,
         generated_wetland   |-> res.generated_wetland,
         CW_Coverage_Percent |-> coverage,
         clay_percent        |-> clay_percent,
         HighClay            |-> clay_percent > CLAY_THRESHOLD,
         coverage_category   |-> coverage_category,
         lrf_factor          |-> lrf_factor,
         cw_reduction        |-> cw_reduction,
         generated_cw        |-> res.generated_wetland - cw_reduction]

ApplyCwMitigation ==
    /\ l_pc = "generated"
    /\ self_results' = apply_cw_mitigation(self_results, self_cw_coverage, self_clay_data)
    /\ l_pc' = "fractions"
    /\ UNCHANGED <<HYDSEQ, self_cw_coverage, self_clay_data, self_hype_pathways, self_pathway_lrfs,
                   self_reach_network, self_attenuation, self_log, self_outputs,
                   routerVars, scriptVars, phase2Vars, completeVars>>

\* The generated_<scenario> columns of the row.
GeneratedCol(res, s) ==
    IF s = "baseline" THEN res.generated_baseline
    ELSE IF s = "wetland" THEN res.generated_wetland
    ELSE res.generated_cw

\* Columns generated_<scenario>_<fraction>.
split_tp_into_fractions(res, fractions) ==
    [s \in LegacyScenarios |->
        [f \in PFractionSet |-> Pct(GeneratedCol(res, s), fractions[f])]]

\* Columns ..._BE and ..._remainder; sediment_pct in percent.
calculate_bank_erosion_split(frac, sediment_pct) ==
    [s \in LegacyScenarios |->
        [f \in PFractionSet |->
            [BE        |-> Pct(frac[s][f], sediment_pct),
             remainder |-> Pct(frac[s][f], 100 - sediment_pct)]]]

\* fillna defaults of the HYPE columns, then the SD column; tenths of a percent.
HypeFilled(hype) ==
    LET filled == [pw \in PathwaySet |->
                     IF hype[pw] # NoValue THEN 10 * hype[pw]
                     ELSE IF pw = "TD" THEN 0 ELSE 250]
        has_td == filled["TD"] > 0
    IN  [pw \in LegacyPathwaySet |->
            IF pw = "SD" THEN (IF has_td THEN filled["SR"] \div 2 ELSE 0)
            ELSE IF pw = "SR" THEN (IF has_td THEN filled["SR"] \div 2 ELSE filled["SR"])
            ELSE filled[pw]]

\* Columns ..._remainder_<pathway>.
split_by_hype_pathways(be, hype) ==
    [s \in LegacyScenarios |->
        [f \in PFractionSet |->
            [pw \in LegacyPathwaySet |->
                PerMille(be[s][f].remainder, HypeFilled(hype)[pw])]]]

SplitFractionsAndPathways ==
    /\ l_pc = "fractions"
    /\ LET frac == split_tp_into_fractions(self_results, P_FRACTIONS)
           be   == calculate_bank_erosion_split(frac, 50)
           pw   == split_by_hype_pathways(be, self_hype_pathways)
       IN  self_results' = [fraction |-> frac, bank |-> be, pathway |-> pw]
                              @@ self_results
    /\ l_pc' = "pathway_mitigation"
    /\ UNCHANGED <<HYDSEQ, self_cw_coverage, self_clay_data, self_hype_pathways, self_pathway_lrfs,
                   self_reach_network, self_attenuation, self_log, self_outputs,
                   routerVars, scriptVars, phase2Vars, completeVars>>

\* The coverage category the lookup files an ExtCode under.
LookupCategory(extcode) ==
    IF extcode = 1 THEN "high" ELSE IF extcode = 2 THEN "medium" ELSE "low"

\* lrf_lookup: later rows of a category overwrite earlier ones; percent
\* remaining per fraction, or NoValue when no row files under the category.
RECURSIVE BuildLrfLookup(_, _)
BuildLrfLookup(rows, lookup) ==
    IF rows = <<>> THEN lookup
    ELSE LET row == Head(rows)
         IN  BuildLrfLookup(Tail(rows),
                 [lookup EXCEPT ![LookupCategory(row.ExtCode)] =
                     [PartP |-> row.PartPmed, DRP |-> row.DRPmed,
                      DOP |-> row.DOPmed]])

lrf_lookup(rows) ==
    BuildLrfLookup(rows, [c \in {"low", "medium", "high"} |->
                            [f \in PFractionSet |-> NoValue]])

\* The summary print indexes lrf_lookup[(category, fraction)] directly.
LookupComplete(lookup) ==
    \A c \in {"low", "medium", "high"}, f \in PFractionSet : lookup[c][f] # NoValue

\* generated_cw_<fraction>_remainder_<pathway> after the mitigation loops.
MitigatedPathwayLoad(res, lookup, f, pw) ==
    LET has_cw == res.CW_Coverage_Percent > 0
        mask == res.coverage_category \in {"low", "medium", "high"} /\ has_cw
        wetland == res.pathway["wetland"][f][pw]
    IN  IF pw \in mitigated_pathways
        THEN IF mask THEN Pct(wetland, lookup[res.coverage_category][f]) ELSE wetland
        ELSE IF f \in {"DRP", "DOP"} THEN wetland
        ELSE IF mask THEN Pct(wetland, lookup[res.coverage_category][f])
        ELSE res.pathway["cw"][f][pw]

\* CWMitigationCalculator.apply_pathway_specific_mitigation on the row.
apply_pathway_specific_mitigation(res, rows) ==
    LET lookup == lrf_lookup(rows)
        cw_pathway == [f \in PFractionSet |->
                         [pw \in LegacyPathwaySet |->
                             MitigatedPathwayLoad(res, lookup, f, pw)]]
        cw_be == [f \in PFractionSet |-> res.bank["wetland"][f].BE]
        cw_fraction == [f \in PFractionSet |->
                          cw_be[f] + SumSeq(LegacyPathwaySeq, cw_pathway[f])]
        generated_cw_total == SumSeq(PFractionSeq, cw_fraction)
    IN  [res EXCEPT
            !.pathway["cw"] = cw_pathway,
            !.bank["cw"] = [f \in PFractionSet |->
                               [@[f] EXCEPT !.BE = cw_be[f]]],
            !.fraction["cw"] = cw_fraction,
            !.generated_cw = generated_cw_total,
            !.cw_reduction = res.generated_wetland - generated_cw_total]

\* The Phase 2 step of calculate_p_fractions_and_pathways: skipped without a
\* sheet; an exception inside it leaves self.results as it was.
PathwayMitigation ==
    /\ l_pc = "pathway_mitigation"
    /\ self_results' =
          IF self_pathway_lrfs = <<>> THEN self_results
          ELSE IF ~LookupComplete(lrf_lookup(self_pathway_lrfs)) THEN self_results
          ELSE apply_pathway_specific_mitigation(self_results, self_pathway_lrfs)
    /\ self_log' =
          IF self_pathway_lrfs # <<>> /\ ~LookupComplete(lrf_lookup(self_pathway_lrfs))
          THEN self_log \cup {"ERROR Error calculating P fractions/pathways"}
          ELSE self_log
    /\ l_pc' = "route"
    /\ UNCHANGED <<HYDSEQ, self_cw_coverage, self_clay_data, self_hype_pathways, self_pathway_lrfs,
                   self_reach_network, self_attenuation, self_outputs,
                   routerVars, scriptVars, phase2Vars, completeVars>>

\* NetworkRouter.route_loads_advanced on the one-reach table: the reach has no
\* upstream neighbour, so each routed load is the generated load.
legacy_route_loads_advanced(res) ==
    LET routed_baseline == res.generated_baseline
        routed_cw == res.generated_cw
        reduction == routed_baseline - routed_cw
    IN  [routed_baseline  |-> routed_baseline,
         routed_wetland   |-> res.generated_wetland,
         routed_cw        |-> routed_cw,
         routed_reduction |-> reduction,
         routed_reduction_percent |->
             \* .replace(0, np.nan) on the baseline, then .fillna(0)
             fillna0(IF routed_baseline = 0 THEN PercentOf(0, 0)
                     ELSE PercentOf(reduction, routed_baseline))] @@ res

\* NetworkRouter.route_loads with a loaded attenuation table:
\* routed = generated x (1 + 1.0 x attenuation).
route_loads(res, attenuation_table) ==
    LET att == IF attenuation_table[1] = NoValue THEN DEFAULT_ATTENUATION
               ELSE attenuation_table[1]
        routed_baseline == res.generated_baseline + Atten(res.generated_baseline, att)
        routed_cw == res.generated_cw + Atten(res.generated_cw, att)
        reduction == routed_baseline - routed_cw
    IN  [attenuation      |-> att,
         routed_baseline  |-> routed_baseline,
         routed_wetland   |-> res.generated_wetland + Atten(res.generated_wetland, att),
         routed_cw        |-> routed_cw,
         routed_reduction |-> reduction,
         routed_reduction_percent |->
             fillna0(replace_inf0(PercentOf(reduction, routed_baseline)))] @@ res

\* The except clause of LakeOmapereAnalysis.route_loads.
routing_fallback(res) ==
    [routed_baseline |-> res.generated_baseline,
     routed_wetland  |-> res.generated_wetland,
     routed_cw       |-> res.generated_cw] @@ res

\* LakeOmapereAnalysis.route_loads: without an attenuation table
\* NetworkRouter.route_loads raises KeyError on results['attenuation'].
RouteLoads ==
    /\ l_pc = "route"
    /\ self_results' =
          IF self_reach_network # <<>> THEN legacy_route_loads_advanced(self_results)
          ELSE IF self_attenuation # <<>> THEN route_loads(self_results, self_attenuation)
          ELSE routing_fallback(self_results)
    /\ self_log' =
          IF self_reach_network = <<>> /\ self_attenuation = <<>>
          THEN self_log \cup {"ERROR Error routing loads"}
          ELSE self_log
    /\ l_pc' = "outputs"
    /\ UNCHANGED <<HYDSEQ, self_cw_coverage, self_clay_data, self_hype_pathways, self_pathway_lrfs,
                   self_reach_network, self_attenuation, self_outputs,
                   routerVars, scriptVars, phase2Vars, completeVars>>

\* The files generate_outputs writes from self.results.
ResultFiles ==
    {"Lake_Omapere_Analysis_Results.csv", "Lake_Omapere_CW_Analysis_DETAILED.xlsx",
     "analysis_summary.json", "analysis_summary.txt"}

\* LakeOmapereAnalysis.generate_outputs
GenerateOutputs ==
    /\ l_pc = "outputs"
    /\ self_outputs' = ResultFiles
    /\ l_pc' = "done"
    /\ UNCHANGED <<HYDSEQ, self_cw_coverage, self_clay_data, self_hype_pathways, self_pathway_lrfs,
                   self_reach_network, self_attenuation, self_results, self_log,
                   routerVars, scriptVars, phase2Vars, completeVars>>

NextLegacy == ApplyCwMitigation \/ SplitFractionsAndPathways \/ PathwayMitigation
                \/ RouteLoads \/ GenerateOutputs

SpecLegacy == InitLegacy /\ [][NextLegacy]_vars

\* ------------------------------------------------------------------------
\* lake_omapere_complete_analysis.py
\* ------------------------------------------------------------------------

\* One load unit of this script: exact through the removal factors (twentieths).
CUnit == 100

\* The merged results row before the CW step: the wetland load and the
\* coverage come from left merges and may be missing.
InitComplete ==
    /\ RouterIdle
    /\ ScriptIdle
    /\ Phase2Idle
    /\ LegacyIdle
    /\ HYDSEQ = <<>>
    /\ c_pc = "merged"
    /\ \E b \in 0..MaxLoad, w \in {NoValue} \cup 0..MaxLoad,
          cov \in CoverageValues \cup {NoValue}, clay \in BOOLEAN :
         complete_results = [TP_Baseline_tpy    |-> b * CUnit,
                             TP_Wetland_tpy     |-> IF w = NoValue THEN NoValue
                                                    ELSE w * CUnit,
                             Combined_Percent   |-> cov,
                             HighClay_Over50Pct |-> clay]

\* apply_cw_mitigation(row) of the script; a missing wetland load stays missing.
complete_apply_cw_mitigation(row) ==
    LET cw_pct == row.Combined_Percent
        keep(percent) == IF row.TP_Wetland_tpy = NoValue THEN NoValue
                         ELSE Pct(row.TP_Wetland_tpy, 100 - percent)
    IN  IF row.HighClay_Over50Pct
        THEN [TP_Wetland_WithCW_tpy |-> row.TP_Wetland_tpy, CW_Removal_Pct |-> 0,
              CW_Category |-> "HighClay_ZeroRemoval"]
        ELSE IF cw_pct = NoValue \/ cw_pct = 0
        THEN [TP_Wetland_WithCW_tpy |-> row.TP_Wetland_tpy, CW_Removal_Pct |-> 0,
              CW_Category |-> "NoCW"]
        ELSE IF cw_pct < 20
        THEN [TP_Wetland_WithCW_tpy |-> keep(20), CW_Removal_Pct |-> 20,
              CW_Category |-> "LowCW_<2pct"]
        ELSE IF cw_pct < 40
        THEN [TP_Wetland_WithCW_tpy |-> keep(35), CW_Removal_Pct |-> 35,
              CW_Category |-> "MediumCW_2-4pct"]
        ELSE [TP_Wetland_WithCW_tpy |-> keep(50), CW_Removal_Pct |-> 50,
              CW_Category |-> "HighCW_>4pct"]

CompleteApplyCW ==
    /\ c_pc = "merged"
    /\ complete_results' = complete_apply_cw_mitigation(complete_results)
                              @@ complete_results
    /\ c_pc' = "reductions"
    /\ UNCHANGED <<HYDSEQ, routerVars, scriptVars, phase2Vars, legacyVars>>

\* TP_Reduction_tpy and Reduction_Percent; a missing operand gives NaN.
complete_reductions(row) ==
    LET missing == row.TP_Wetland_WithCW_tpy = NoValue
        reduction == row.TP_Baseline_tpy - row.TP_Wetland_WithCW_tpy
    IN  [TP_Reduction_tpy  |-> IF missing THEN NoValue ELSE reduction,
         Reduction_Percent |->
             fillna0(IF missing THEN [kind |-> "nan", value |-> 0]
                     ELSE PercentOf(reduction, row.TP_Baseline_tpy))]

CompleteReductions ==
    /\ c_pc = "reductions"
    /\ complete_results' = complete_reductions(complete_results) @@ complete_results
    /\ c_pc' = "done"
    /\ UNCHANGED <<HYDSEQ, routerVars, scriptVars, phase2Vars, legacyVars>>

NextComplete == CompleteApplyCW \/ CompleteReductions

SpecComplete == InitComplete /\ [][NextComplete]_vars

\* ------------------------------------------------------------------------
\* The programs together
\* ------------------------------------------------------------------------

Init == InitRouter \/ InitScript \/ InitPhase2 \/ InitLegacy \/ InitComplete

Next == NextRouter \/ NextScript \/ NextPhase2 \/ NextLegacy \/ NextComplete

Spec == Init /\ [][Next]_vars

\* ------------------------------------------------------------------------
\* Properties
\* ------------------------------------------------------------------------

ReachSeq == <<1, 2, 3>>

Phase2Scenarios == {"Scenario1_SurfaceGW", "Scenario2_SurfaceOnly"}

\* The Phase 2 scenarios whose result row has been written.
Phase2Rows ==
    IF p_pc = "idle" THEN {} ELSE {s \in Phase2Scenarios : results[s] # <<>>}

\* The reach's merged row is complete (missing clay and carry filled in).
Phase2Filled == p_pc \in {"scenario1", "scenario2", "validate", "done"}

RouterRouted == r_pc \in {"reductions", "done"}

ScriptRouted == s_pc \in {"reductions", "done"}

\* HYDSEQ strictly increases along every edge of the router's network.
RouterConsistent ==
    \A r \in Reaches : to_reach[r] # NoValue => HYDSEQ[r] < HYDSEQ[to_reach[r]]

\* HYDSEQ strictly increases along every edge of the script's network.
ScriptConsistent ==
    \A u, r \in Reaches : TO_NODE[u] = FROM_NODE[r] => HYDSEQ[u] < HYDSEQ[r]

\* The attenuation factor the input table gives a reach, the default when the
\* table has no entry for it.
SuppliedAttenuation(r) ==
    IF attenuation_df[r] # NoValue THEN attenuation_df[r] ELSE DEFAULT_ATTENUATION

\* Sum over the direct upstream neighbours u of r of routed(u) x factor.
RouterUpstreamSum(s, r, factor) ==
    SumSeq(ReachSeq, [u \in Reaches |->
                        IF to_reach[u] = r THEN Atten(routed[s][u], factor) ELSE 0])

ScriptUpstreamSum(s, r, factor) ==
    SumSeq(ReachSeq, [u \in Reaches |->
                        IF TO_NODE[u] = FROM_NODE[r]
                        THEN Atten(TPRouted[s][u], factor) ELSE 0])

\* C1: on a network whose HYDSEQ strictly increases along each edge, for
\* every scenario and reach, routed(r) = generated(r) + the sum over the
\* direct upstream neighbours u of routed(u) x attenuation(r), attenuation(r)
\* being the factor the attenuation table supplies for r.
C1_RoutedRecurrence ==
    (RouterRouted /\ RouterConsistent) =>
        \A s \in ScenarioNames, r \in Reaches :
            routed[s][r] = generated[s][r]
                             + RouterUpstreamSum(s, r, SuppliedAttenuation(r))

\* The generated-load and attenuation columns of the three loops of the script.
ScriptGenerated(s, r) ==
    IF s = "baseline" THEN loads_df[r].TPGen_baseline
    ELSE IF s = "wetland_noCW" THEN loads_df[r].TPGen_wetland_noCW
    ELSE loads_df[r].TPGen_wetland_withCW

ScriptAttenuation(s, r) ==
    IF s = "baseline" THEN loads_df[r].Patten_baseline
    ELSE loads_df[r].Patten_wetland

\* C2: in every routing loop the factor multiplied onto an upstream reach's
\* routed load is the one the loop holds for the receiving reach: the router
\* and the three loops of the routing script all satisfy
\* routed(r) = generated(r) + sum of routed(u) x factor(r).
C2_ReceivingReachFactor ==
    /\ (RouterRouted /\ RouterConsistent) =>
          \A s \in ScenarioNames, r \in Reaches :
              routed[s][r] = generated[s][r]
                  + RouterUpstreamSum(s, r, AttenFactor(attenuation, r))
    /\ (ScriptRouted /\ ScriptConsistent) =>
          \A s \in ScriptScenarios, r \in Reaches :
              TPRouted[s][r] = ScriptGenerated(s, r)
                  + ScriptUpstreamSum(s, r, ScriptAttenuation(s, r))

\* C3: the reported routed load of a reach is never less than its own
\* generated load, in the Phase 2 result table (baseline and with CW) and in
\* the router (every scenario).
C3_RoutedAtLeastGenerated ==
    /\ \A s \in Phase2Rows :
          /\ results[s].routed_baseline >= results[s].generated_baseline
          /\ results[s].routed_with_cw >= results[s].generated_with_cw
    /\ RouterRouted =>
          \A s \in ScenarioNames, r \in Reaches : routed[s][r] >= generated[s][r]

\* C4: with clay above 50 % apply_lrf removes nothing and returns the
\* pathway load unchanged, whatever the ExtCode and whatever the LRF table
\* holds: in every pathway entry of a written result row, and for every
\* ExtCode, fraction and pathway applied to the reach's data.
C4_ClayOverride ==
    /\ \A s \in Phase2Rows :
          results[s].clay_percent > 50 =>
              \A f \in PFractionSet, pw \in PathwaySet :
                  LET e == results[s].fractions[f].pathways[pw]
                  IN  e.removed = 0 /\ e.remaining = e.input
    /\ (Phase2Filled /\ all_data.Clay > 50) =>
          \A f \in PFractionSet, pw \in PathwaySet, e \in ExtCodes :
              apply_lrf(all_data.Total_CLUES_TP, f, pw, e, lrf_data, all_data.Clay)
                  = [removed |-> 0, remaining |-> all_data.Total_CLUES_TP]

\* A high-clay reach with a positive pathway load whose (ExtCode, pathway)
\* row of the table would remove load has been processed.
C4_Witness ==
    \E s \in Phase2Rows, f \in PFractionSet, pw \in PathwaySet :
        /\ results[s].clay_percent > 50
        /\ results[s].fractions[f].pathways[pw].input > 0
        /\ \E row \in lrf_data :
              /\ row.ExtCode = results[s].ExtCode
              /\ row.Pathway = pw
              /\ row[f] < 100

\* C5: a Phase 2 reach with clay above 50 % has cw_reduction exactly 0 and
\* generated_with_cw equal to generated_baseline.
C5_HighClayNoReduction ==
    \A s \in Phase2Rows :
        results[s].clay_percent > 50 =>
            /\ results[s].cw_reduction = 0
            /\ results[s].generated_with_cw = results[s].generated_baseline

\* C6: at the end of the LakeOmapereAnalysis load stages a reach whose clay
\* percentage exceeds CLAY_THRESHOLD has generated_cw equal to
\* generated_wetland.
C6_LegacyClayOverrideSurvives ==
    (l_pc = "route" /\ self_results.clay_percent > CLAY_THRESHOLD) =>
        self_results.generated_cw = self_results.generated_wetland

\* C7: in every Phase 2 result row generated_with_cw is at most
\* generated_baseline.
C7_NoOverReduction ==
    \A s \in Phase2Rows :
        results[s].generated_with_cw <= results[s].generated_baseline

\* C8: when every reach's mitigated generated load is at most its baseline
\* generated load, every reach's mitigated routed load is at most its
\* baseline routed load: in the router, in the Phase 2 table and in the
\* routing script (wetland with CW against baseline).
C8_RoutedMonotone ==
    /\ (RouterRouted /\ \A r \in Reaches :
                           generated["cw"][r] <= generated["baseline"][r]) =>
          \A r \in Reaches : routed["cw"][r] <= routed["baseline"][r]
    /\ \A s \in Phase2Rows :
          results[s].generated_with_cw <= results[s].generated_baseline =>
              results[s].routed_with_cw <= results[s].routed_baseline
    /\ (ScriptRouted /\ \A r \in Reaches :
                           loads_df[r].TPGen_wetland_withCW
                               <= loads_df[r].TPGen_baseline) =>
          \A r \in Reaches :
              TPRouted["wetland_withCW"][r] <= TPRouted["baseline"][r]

\* C9: in every Phase 2 result row, each P fraction's load with CW is at
\* least half of that fraction's baseline load, the bank-erosion share.
C9_BankErosionFloor ==
    \A s \in Phase2Rows, f \in PFractionSet :
        /\ 2 * results[s].fractions[f].bank_erosion = results[s].fractions[f].baseline
        /\ results[s].fractions[f].with_cw >= results[s].fractions[f].bank_erosion

\* A fraction with a positive load whose hillslope share was removed
\* entirely: its load with CW is exactly the bank-erosion share.
C9_Witness ==
    \E s \in Phase2Rows, f \in PFractionSet :
        /\ results[s].fractions[f].baseline > 0
        /\ results[s].fractions[f].removed > 0
        /\ 2 * results[s].fractions[f].with_cw = results[s].fractions[f].baseline

\* C10: in every Phase 2 result row the whole hillslope PartP load (baseline
\* less bank erosion) enters surface runoff and exactly 0 enters TD, IF, SG
\* and DG.
C10_PartPToSurfaceRunoff ==
    \A s \in Phase2Rows :
        LET partp == results[s].fractions["PartP"]
        IN  /\ partp.pathways["SR"].input = partp.baseline - partp.bank_erosion
            /\ \A pw \in PathwaySet \ {"SR"} : partp.pathways[pw].input = 0

\* A reach with a positive PartP load and positive tile-drain and groundwater
\* percentages has been processed.
C10_Witness ==
    \E s \in Phase2Rows :
        /\ results[s].fractions["PartP"].hillslope > 0
        /\ all_data.hype["TD"] > 0
        /\ all_data.hype["DG"] > 0
        /\ results[s].fractions["DRP"].pathways["TD"].input > 0

\* The pathway stage of the LakeOmapereAnalysis run is over.
LegacyMitigated == l_pc \in {"route", "outputs", "done"}

\* The CW sheet was loaded and holds rows for extent codes 1, 2 and another.
SheetComplete ==
    /\ \E i \in DOMAIN self_pathway_lrfs : self_pathway_lrfs[i].ExtCode = 1
    /\ \E i \in DOMAIN self_pathway_lrfs : self_pathway_lrfs[i].ExtCode = 2
    /\ \E i \in DOMAIN self_pathway_lrfs : self_pathway_lrfs[i].ExtCode \notin {1, 2}

\* apply_pathway_specific_mitigation has run to its end on the reach.
LegacyPathwayApplied == LegacyMitigated /\ SheetComplete

\* C11: bank-erosion load and the deep-groundwater load of DRP and DOP are
\* never reduced by mitigation: in every Phase 2 result row the DG entry of
\* DRP and DOP has removed = 0 and remaining = input and the load with CW
\* contains the whole bank-erosion share; after
\* apply_pathway_specific_mitigation the CW columns for BE and for DG of DRP
\* and DOP equal the wetland columns.
C11_BankAndDeepGroundwaterUnmitigated ==
    /\ \A s \in Phase2Rows, f \in PFractionSet :
          LET fr == results[s].fractions[f]
          IN  /\ fr.with_cw - SumSeq(PathwaySeq,
                                     [pw \in PathwaySet |-> fr.pathways[pw].remaining])
                    = fr.bank_erosion
              /\ f \in {"DRP", "DOP"} =>
                    /\ fr.pathways["DG"].removed = 0
                    /\ fr.pathways["DG"].remaining = fr.pathways["DG"].input
    /\ LegacyPathwayApplied =>
          \A f \in PFractionSet :
              /\ self_results.bank["cw"][f].BE = self_results.bank["wetland"][f].BE
              /\ f \in {"DRP", "DOP"} =>
                    self_results.pathway["cw"][f]["DG"]
                        = self_results.pathway["wetland"][f]["DG"]

\* The CW sheet of the legacy run has a row for the reach's coverage category
\* (extent code 1 for high, 2 for medium, any other for low) and the pathway.
SheetHasEntry(category, pw) ==
    \E i \in DOMAIN self_pathway_lrfs :
        /\ self_pathway_lrfs[i].Pathway = pw
        /\ \/ category = "high" /\ self_pathway_lrfs[i].ExtCode = 1
           \/ category = "medium" /\ self_pathway_lrfs[i].ExtCode = 2
           \/ category = "low" /\ self_pathway_lrfs[i].ExtCode \notin {1, 2}

\* C12: a load whose (coverage category, pathway) has no entry in the
\* removal-factor table is left unmitigated: in Phase 2 the pathway entry has
\* removed = 0 and remaining = input; in the LakeOmapereAnalysis run with a
\* loaded CW sheet the CW pathway load equals the wetland pathway load.
C12_MissingEntryUnmitigated ==
    /\ \A s \in Phase2Rows, f \in PFractionSet, pw \in PathwaySet :
          (~\E row \in lrf_data :
                row.ExtCode = results[s].ExtCode /\ row.Pathway = pw) =>
              LET e == results[s].fractions[f].pathways[pw]
              IN  e.removed = 0 /\ e.remaining = e.input
    /\ (LegacyMitigated /\ self_pathway_lrfs # <<>>) =>
          \A f \in PFractionSet, pw \in LegacyPathwaySet :
              ~SheetHasEntry(self_results.coverage_category, pw) =>
                  self_results.pathway["cw"][f][pw]
                      = self_results.pathway["wetland"][f][pw]

\* What C13 asks of one step of the programs.
DefaultAttenuationStep ==
    /\ (p_pc = "merged" /\ all_data.PstreamCarry = NoValue) =>
          all_data'.PstreamCarry = DEFAULT_ATTENUATION
    /\ s_pc = "loads" =>
          \A r \in Reaches :
              /\ Patten_in.baseline[r] = NoValue =>
                    loads_df'[r].Patten_baseline = DEFAULT_ATTENUATION
              /\ Patten_in.wetland[r] = NoValue =>
                    loads_df'[r].Patten_wetland = DEFAULT_ATTENUATION
    /\ (r_pc = "route" /\ RouterConsistent) =>
          \A s \in ScenarioNames, r \in Reaches :
              attenuation_df[r] = NoValue =>
                  routed'[s][r] = generated[s][r]
                      + (RouterUpstreamSum(s, r, DEFAULT_ATTENUATION))'

\* C13: a reach without an attenuation value in the input gets the factor
\* 0.90 in every routing computation: the Phase 2 fill of PstreamCarry, the
\* attenuation columns of the routing script and the routing of the router.
C13_DefaultAttenuationEverywhere == [][DefaultAttenuationStep]_vars

\* The merged row lacks clay or attenuation and main is about to fill it in.
MissingValueFilled ==
    p_pc = "merged" /\ (all_data.Clay = NoValue \/ all_data.PstreamCarry = NoValue)

\* apply_lrf found no row for a load it was asked to treat and returned it whole.
MissingLrfUsed ==
    \E s \in Phase2Rows, f \in PFractionSet, pw \in PathwaySet :
        /\ results[s].fractions[f].pathways[pw].input > 0
        /\ all_data.Clay <= 50
        /\ ~\E row \in lrf_data :
               row.ExtCode = results[s].ExtCode /\ row.Pathway = pw

\* Printed lines that are not the pathway-sum warning of load_hype_pathways or
\* the validation lines of validate_results and main, the only data-quality
\* lines of the script, none of which reports a default.
DefaultsReported ==
    warnings \ ({"WARNING: Some pathways don't sum to 1.0"}
                    \cup ValidationLines) # {}

\* What C14 asks of one step of the Phase 2 run. The run keeps no count of
\* the values it fills in, so the fill itself has to print the line; the rows
\* apply_lrf left untreated stay visible until the run has ended.
DefaultsReportedStep ==
    /\ MissingValueFilled => DefaultsReported'
    /\ (p_pc' = "done" /\ MissingLrfUsed') => DefaultsReported'

\* C14: every use of a default in the Phase 2 run (the filled-in clay
\* percentage, the filled-in attenuation factor, no removal for a missing LRF
\* row) is reported by a line of the run's output: the fill prints it, and the
\* finished run has printed it for the rows apply_lrf found no entry for.
C14_DefaultsReported == [][DefaultsReportedStep]_vars

\* C15: routing hands back routed loads only when HYDSEQ agrees with the edge
\* list (it increases along every edge, so there is no cycle and no upstream
\* neighbour of equal or larger sequence). On an inconsistent network the
\* programs are to stop with a data error, so neither the router nor the
\* routing script may reach the stage after routing.
C15_InconsistentOrderNotRouted ==
    /\ RouterRouted => RouterConsistent
    /\ ScriptRouted => ScriptConsistent

\* C16: within one run the scenarios are routed over the same adjacency and
\* the same attenuation factors, so only the generated load can make their
\* routed loads differ: two scenarios with the same generated load on every
\* reach have the same routed load on every reach, in the router and in the
\* routing script.
C16_ScenariosShareNetwork ==
    /\ RouterRouted =>
          \A s, t \in ScenarioNames :
              generated[s] = generated[t] => routed[s] = routed[t]
    /\ ScriptRouted =>
          \A s, t \in ScriptScenarios :
              (\A r \in Reaches : ScriptGenerated(s, r) = ScriptGenerated(t, r)) =>
                  TPRouted[s] = TPRouted[t]

\* A stage of run_full_analysis has failed: its except clause printed the error.
StageFailed == self_log # {}

\* C17: run_full_analysis writes result files only when every stage before
\* has completed without error: once a stage has failed (data loaded in part,
\* fraction and pathway detail skipped, routed loads replaced by the generated
\* loads) no result file is written.
C17_NoOutputsAfterFailure == (l_pc # "idle" /\ self_outputs # {}) => ~StageFailed

\* The percentage 0 as a finite number.
ZeroPercent == [kind |-> "finite", value |-> 0]

\* C18: every reported percentage reduction of a reach whose baseline load is
\* exactly 0 is the number 0, never NaN or infinite: cw_reduction_percent and
\* routed_reduction_percent of Phase 2, routed_reduction_percent of
\* NetworkRouter, RoutedReduction_Pct of the routing script and
\* Reduction_Percent of the complete-analysis script.
C18_ZeroBaselineZeroPercent ==
    /\ \A s \in Phase2Rows :
          /\ results[s].generated_baseline = 0 =>
                results[s].cw_reduction_percent = ZeroPercent
          /\ results[s].routed_baseline = 0 =>
                results[s].routed_reduction_percent = ZeroPercent
    /\ (l_pc \in {"outputs", "done"}
            /\ "routed_reduction_percent" \in DOMAIN self_results
            /\ self_results.routed_baseline = 0) =>
          self_results.routed_reduction_percent = ZeroPercent
    /\ s_pc = "done" =>
          \A r \in lake_nzsegments :
              TPRouted["baseline"][r] = 0 => RoutedReduction_Pct[r] = ZeroPercent
    /\ (c_pc = "done" /\ complete_results.TP_Baseline_tpy = 0) =>
          complete_results.Reduction_Percent = ZeroPercent

\* C19: every Phase 2 result row carries the ExtCode of its CW coverage:
\* 1 below 2.0 %, 2 from 2.0 % to 4.0 % (both included), 3 above 4.0 %.
C19_ExtCodeOfCoverage ==
    \A s \in Phase2Rows :
        LET coverage == results[s].CW_Coverage_Percent
        IN  /\ coverage < 20 => results[s].ExtCode = 1
            /\ (coverage >= 20 /\ coverage <= 40) => results[s].ExtCode = 2
            /\ coverage > 40 => results[s].ExtCode = 3

\* Both result rows are written: one at 4.1 % with ExtCode 3, the other at
\* exactly 4.0 % with ExtCode 2.
C19_Witness ==
    /\ p_pc = "done"
    /\ results["Scenario1_SurfaceGW"].CW_Coverage_Percent = 41
    /\ results["Scenario1_SurfaceGW"].ExtCode = 3
    /\ results["Scenario2_SurfaceOnly"].CW_Coverage_Percent = 40
    /\ results["Scenario2_SurfaceOnly"].ExtCode = 2

\* The extent codes of the sheet rows that the LakeOmapereAnalysis run files
\* under the coverage category of the reach, whose factors it applies.
LegacyExtCodesUsed ==
    {self_pathway_lrfs[i].ExtCode :
        i \in {j \in DOMAIN self_pathway_lrfs :
                 LookupCategory(self_pathway_lrfs[j].ExtCode)
                     = self_results.coverage_category}}

FallbackShare(load, pw) ==
    IF pw \in {"SR", "IF", "SG", "DG"} THEN Pct(load, 25) ELSE 0

\* Every cell of the reach's Hype.csv row is missing.
HypeMissing(hype) == \A pw \in PathwaySet : hype[pw] = NoValue

\* C21: a reach without pathway percentages gets the fallback distribution,
\* so the mitigable load of DRP and DOP is allocated in full: in the Phase 2
\* result rows the pathway inputs are the fallback shares of the hillslope
\* load, and in the LakeOmapereAnalysis run the pathway columns are the
\* fallback shares of the remainder load.
C21_FallbackDistribution ==
    /\ \A s \in Phase2Rows, f \in {"DRP", "DOP"}, pw \in PathwaySet :
          HypeMissing(all_data.hype) =>
              results[s].fractions[f].pathways[pw].input
                  = FallbackShare(results[s].fractions[f].hillslope, pw)
    /\ (l_pc \in {"pathway_mitigation", "route", "outputs", "done"}
            /\ HypeMissing(self_hype_pathways)) =>
          \A f \in {"DRP", "DOP"}, pw \in LegacyPathwaySet :
              self_results.pathway["wetland"][f][pw]
                  = FallbackShare(self_results.bank["wetland"][f].remainder, pw)

\* C22: in every Phase 2 result row the baselines of PartP, DRP and DOP sum
\* to the reach's available load (the load after the agricultural filter),
\* which is also its generated_baseline.
C22_FractionsSumToAvailable ==
    \A s \in Phase2Rows :
        /\ SumSeq(PFractionSeq,
                  [f \in PFractionSet |-> results[s].fractions[f].baseline])
              = results[s].Available_Load
        /\ results[s].generated_baseline = results[s].Available_Load

\* A filtered reach with a positive available load has its row written.
C22_Witness ==
    /\ p_pc = "done"
    /\ results["Scenario1_SurfaceGW"].ag_filter_applied
    /\ results["Scenario1_SurfaceGW"].Available_Load > 0
    /\ results["Scenario1_SurfaceGW"].fractions["DOP"].baseline > 0

\* C23: in every Phase 2 result row, for DRP and for DOP, the input loads of
\* the five pathways SR, TD, IF, SG and DG sum to the hillslope load of the
\* fraction, whatever pathway percentages the run was given.
C23_PathwaysSumToHillslope ==
    \A s \in Phase2Rows, f \in {"DRP", "DOP"} :
        SumSeq(PathwaySeq,
               [pw \in PathwaySet |-> results[s].fractions[f].pathways[pw].input])
            = results[s].fractions[f].hillslope

\* C24: in every Phase 2 result row, a reach with ag_percent below 25 has
\* Available_Load = Total_CLUES_TP x ag_percent / 100 and ag_filter_applied
\* set; a reach with ag_percent of 25 or more has Available_Load =
\* Total_CLUES_TP and ag_filter_applied cleared.
C24_AgFilter ==
    \A s \in Phase2Rows :
        /\ all_data.ag_percent < 25 =>
              /\ results[s].Available_Load
                    = (all_data.Total_CLUES_TP * all_data.ag_percent) \div 100
              /\ results[s].ag_filter_applied
        /\ all_data.ag_percent >= 25 =>
              /\ results[s].Available_Load = all_data.Total_CLUES_TP
              /\ ~results[s].ag_filter_applied

\* A reach with a positive load at exactly 25 % is left unfiltered.
C24_Witness ==
    /\ p_pc = "done"
    /\ all_data.ag_percent = 25
    /\ all_data.Total_CLUES_TP > 0
    /\ results["Scenario2_SurfaceOnly"].Available_Load = all_data.Total_CLUES_TP
    /\ ~results["Scenario2_SurfaceOnly"].ag_filter_applied

\* The outputs of a result row that do not depend on the CW coverage.
CoverageIndependent(row) ==
    [Available_Load     |-> row.Available_Load,
     ag_filter_applied  |-> row.ag_filter_applied,
     generated_baseline |-> row.generated_baseline,
     routed_baseline    |-> row.routed_baseline,
     fractions |-> [f \in PFractionSet |->
                      [baseline     |-> row.fractions[f].baseline,
                       bank_erosion |-> row.fractions[f].bank_erosion,
                       hillslope    |-> row.fractions[f].hillslope,
                       inputs |-> [pw \in PathwaySet |->
                                     row.fractions[f].pathways[pw].input]]]]

\* Both rows are written from the current table, each with its own coverage
\* column, and agree on every coverage-independent output.
ScenariosAgree ==
    /\ results["Scenario1_SurfaceGW"].CW_Coverage_Percent = all_data.Combined_Percent
    /\ results["Scenario2_SurfaceOnly"].CW_Coverage_Percent = all_data.Type2_SW_Percent
    /\ CoverageIndependent(results["Scenario1_SurfaceGW"])
          = CoverageIndependent(results["Scenario2_SurfaceOnly"])

\* What C25 asks of one step of the Phase 2 run.
ScenarioFrameStep ==
    /\ p_pc = "scenario1" => (all_data' = all_data /\ lrf_data' = lrf_data)
    /\ p_pc = "scenario2" => ScenariosAgree'

\* C25: Scenario 1 takes its coverage from Combined_Percent and Scenario 2
\* from Type2_SW_Percent of the same merged table; running Scenario 1 changes
\* neither the table nor the LRF data, and once Scenario 2 has run the two
\* rows agree on Available_Load, generated_baseline, routed_baseline, the
\* bank-erosion loads and the pathway input loads.
C25_ScenariosShareInputs == [][ScenarioFrameStep]_vars

\* Both rows are written with different coverages and extent codes, and the
\* loads with CW differ while the coverage-independent outputs agree.
C25_Witness ==
    /\ p_pc = "done"
    /\ all_data.Combined_Percent # all_data.Type2_SW_Percent
    /\ results["Scenario1_SurfaceGW"].ExtCode # results["Scenario2_SurfaceOnly"].ExtCode
    /\ results["Scenario1_SurfaceGW"].generated_with_cw
          # results["Scenario2_SurfaceOnly"].generated_with_cw
    /\ results["Scenario1_SurfaceGW"].generated_baseline > 0
    /\ ScenariosAgree

\* The ordered category each classifier gives a coverage (tenths of a percent).
Phase2Level(coverage) ==
    LET extcode == assign_coverage_category(coverage)
    IN  IF extcode = 1 THEN "low" ELSE IF extcode = 2 THEN "medium" ELSE "high"

LegacyLevel(coverage) == categorize_coverage(coverage)

CompleteLevel(coverage) ==
    LET category == complete_apply_cw_mitigation(
                        [TP_Wetland_tpy |-> 0, Combined_Percent |-> coverage,
                         HighClay_Over50Pct |-> FALSE]).CW_Category
    IN  IF category = "LowCW_<2pct" THEN "low"
        ELSE IF category = "MediumCW_2-4pct" THEN "medium"
        ELSE IF category = "HighCW_>4pct" THEN "high"
        ELSE "none"

\* The positive coverage the running program has classified, as a set.
ClassifiedCoverages ==
    {results[s].CW_Coverage_Percent : s \in Phase2Rows}
      \cup (IF l_pc \in {"idle", "generated"} THEN {}
            ELSE {self_results.CW_Coverage_Percent})
      \cup (IF c_pc \in {"reductions", "done"}
               /\ complete_results.Combined_Percent # NoValue
            THEN {complete_results.Combined_Percent} ELSE {})

\* C26: the three coverage classifiers put every positive coverage a program
\* has classified, 2.0 % and 4.0 % included, in the same ordered category.
C26_ClassifiersAgree ==
    \A coverage \in ClassifiedCoverages :
        coverage > 0 =>
            /\ Phase2Level(coverage) = LegacyLevel(coverage)
            /\ LegacyLevel(coverage) = CompleteLevel(coverage)

\* C27: split_by_hype_pathways of the LakeOmapereAnalysis run puts the whole
\* PartP remainder load on SR and exactly 0 on every other pathway, whatever
\* the HYPE percentages of the reach.
C27_LegacyPartPToSurfaceRunoff ==
    l_pc \in {"pathway_mitigation", "route", "outputs", "done"} =>
        \A s \in LegacyScenarios, pw \in LegacyPathwaySet :
            self_results.pathway[s]["PartP"][pw]
                = IF pw = "SR" THEN self_results.bank[s]["PartP"].remainder
                  ELSE 0

\* row.get(key, default) on a table row.
RowGet(row, key, default) == IF key \in DOMAIN row THEN row[key] ELSE default

\* The hydroedge table the routing script reads, one row per reach, as the
\* reach_network_df handed to NetworkRouter.
HydroedgeRows(tn, hydseq) ==
    [r \in 1..NumReaches |->
        [NZSEGMENT |-> r, FROM_NODE |-> FROM_NODE[r], TO_NODE |-> tn[r],
         HYDSEQ |-> hydseq[r]]]

\* route_loads_advanced, "Build upstream connectivity": a row is used only
\* when it has a truthy from_reach (or FROM_REACH) and to_reach (or TO_REACH).
RECURSIVE AdvancedUpstreamOf(_, _, _)
AdvancedUpstreamOf(rows, n, reach_id) ==
    IF n = 0 THEN <<>>
    ELSE LET row == rows[n]
             from_reach == RowGet(row, "from_reach", RowGet(row, "FROM_REACH", NoValue))
             to_r == RowGet(row, "to_reach", RowGet(row, "TO_REACH", NoValue))
             used == from_reach \notin {NoValue, 0} /\ to_r \notin {NoValue, 0}
         IN  IF used /\ to_r = reach_id
             THEN Append(AdvancedUpstreamOf(rows, n - 1, reach_id), from_reach)
             ELSE AdvancedUpstreamOf(rows, n - 1, reach_id)

AdvancedUpstreamMap(rows) ==
    [r \in Reaches |-> AdvancedUpstreamOf(rows, Len(rows), r)]

\* NetworkRouter.build_network_structure: the loop reads the node columns and
\* stores the HYDSEQ of each reach; 'upstream' and 'downstream' stay empty.
build_network_structure(reach_network_df) ==
    [reaches    |-> {reach_network_df[i].NZSEGMENT : i \in 1..Len(reach_network_df)},
     upstream   |-> [r \in Reaches |-> <<>>],
     downstream |-> [r \in Reaches |-> <<>>],
     hydseq     |-> [r \in Reaches |-> RowGet(reach_network_df[r], "HYDSEQ", 0)]]

\* C28: u is upstream of r exactly when TO_NODE(u) = FROM_NODE(r), and
\* NetworkRouter, handed the (reach, FROM_NODE, TO_NODE) table of the routing
\* script, builds the same adjacency as the script, so that a reach with
\* upstream reaches is routed more than its own generated load.
C28_SameAdjacency ==
    s_pc \notin {"idle", "start"} =>
        LET reach_network_df == HydroedgeRows(TO_NODE, HYDSEQ)
            um == AdvancedUpstreamMap(reach_network_df)
        IN  /\ \A r, u \in Reaches :
                  (\E i \in 1..Len(network[r]) : network[r][i] = u)
                      <=> TO_NODE[u] = FROM_NODE[r]
            /\ um = network
            /\ build_network_structure(reach_network_df).upstream = network
            /\ \A order \in SortedOrders(HYDSEQ), r \in Reaches :
                  network[r] # <<>> =>
                      RouteScenario(GenBaseline, order, um,
                                    [x \in Reaches |-> NoValue])[r]
                          > GenBaseline[r]

\* Phase 2: a finished scenario whose coverage is exactly 0 removes nothing.
Phase2ZeroCoverageUnmitigated ==
    p_pc = "done" =>
        \A s \in DOMAIN results :
            results[s].CW_Coverage_Percent = 0 =>
                results[s].generated_with_cw = results[s].generated_baseline

\* Legacy run: with cw_coverage_percent exactly 0 the CW load is the wetland load.
LegacyZeroCoverageUnmitigated ==
    (l_pc \notin {"idle", "generated"} /\ self_cw_coverage = 0) =>
        self_results.generated_cw = self_results.generated_wetland

\* Complete-analysis script: Combined_Percent exactly 0 leaves the wetland load.
CompleteZeroCoverageUnmitigated ==
    (c_pc \notin {"idle", "merged"} /\ complete_results.Combined_Percent = 0) =>
        complete_results.TP_Wetland_WithCW_tpy = complete_results.TP_Wetland_tpy

\* C29: with a coverage of exactly 0 no pipeline mitigates: generated_with_cw =
\* generated_baseline (Phase 2), generated_cw = generated_wetland (legacy),
\* TP_Wetland_WithCW_tpy = TP_Wetland_tpy (complete analysis).
C29_ZeroCoverageNoMitigation ==
    /\ Phase2ZeroCoverageUnmitigated
    /\ LegacyZeroCoverageUnmitigated
    /\ CompleteZeroCoverageUnmitigated

\* C30: route_loads_advanced applies the attenuation the table supplies for a
\* reach whenever the table has an entry for it, an entry of exactly 0
\* included, and DEFAULT_ATTENUATION only for a reach with no entry; a reach
\* whose entry is 0 therefore receives nothing from upstream.
C30_SuppliedAttenuationUsed ==
    r_pc \in {"route", "reductions", "done"} =>
        \A r \in Reaches :
            /\ attenuation_df[r] # NoValue =>
                  AttenFactor(attenuation, r) = attenuation_df[r]
            /\ attenuation_df[r] = NoValue =>
                  AttenFactor(attenuation, r) = DEFAULT_ATTENUATION
            /\ (r_pc = "done" /\ attenuation_df[r] = 0) =>
                  \A s \in ScenarioNames : routed[s][r] = generated[s][r]

====
